---- MODULE Spec2Model ----
(***************************************************************************)
(* A model of the Facebook comment scraper:                                *)
(*   src/facebook/facebook_client.py  FacebookScraperClient                *)
(*   src/main.py                      the FastAPI endpoints                *)
(*                                                                         *)
(* The harvester fetch_and_parse_comments_with_browser is a sequential     *)
(* coroutine; its steps are the actions below, one per phase between the   *)
(* places where control can leave the straight line (an exception of a     *)
(* browser call, a loop exit).  Browser calls are inputs: the markup a     *)
(* read returns and the call that raises are drawn with \E.                *)
(***************************************************************************)
EXTENDS Integers, Sequences, FiniteSets, TLC

(***************************************************************************)
(* Bounds of the model.                                                    *)
(***************************************************************************)
MaxLimit == 2
MaxPageLen == 2
MaxCookieLines == 2

(***************************************************************************)
(* Program constants.                                                      *)
(***************************************************************************)
max_scrolls == 100
max_no_new_comments == 4
KeyTextLen == 50
\* reply_elements[:5]
MaxReplies == 5
\* the largest limit a request may carry: Field(default=100, ge=1, le=1000)
LimitMax == 1000

(***************************************************************************)
(* Strings.  TLC treats a string as a sequence of characters for Len, \o   *)
(* and SubSeq.                                                             *)
(***************************************************************************)
Min(a, b) == IF a <= b THEN a ELSE b

\* Python s[:n]
Take(s, n) == SubSeq(s, 1, Min(n, Len(s)))

\* Python s[k:] for a 1-based first kept position k
DropTo(s, k) == SubSeq(s, k, Len(s))

CharAt(s, k) == SubSeq(s, k, k)

\* Python `sub in s`
Contains(s, sub) ==
    \E k \in 1..(Len(s) - Len(sub) + 1) : SubSeq(s, k, k + Len(sub) - 1) = sub

StartsWith(s, pre) == Len(s) >= Len(pre) /\ Take(s, Len(pre)) = pre

IsSpace(c) == c \in {" ", "\t", "\n"}

IsDigit(c) == c \in {"0", "1", "2", "3", "4", "5", "6", "7", "8", "9"}

RECURSIVE LStrip(_)
LStrip(s) == IF Len(s) > 0 /\ IsSpace(CharAt(s, 1)) THEN LStrip(DropTo(s, 2)) ELSE s

RECURSIVE RStrip(_)
RStrip(s) ==
    IF Len(s) > 0 /\ IsSpace(CharAt(s, Len(s))) THEN RStrip(Take(s, Len(s) - 1)) ELSE s

\* Python s.strip()
Strip(s) == RStrip(LStrip(s))

\* The upper-case letters the model's markup uses, lowered (re.I matching).
LowerChar(c) ==
    CASE c = "C" -> "c"
      [] c = "R" -> "r"
      [] c = "U" -> "u"
      [] c = "F" -> "f"
      [] c = "I" -> "i"
      [] OTHER -> c

RECURSIVE Lower(_)
Lower(s) == IF Len(s) = 0 THEN s ELSE LowerChar(CharAt(s, 1)) \o Lower(DropTo(s, 2))

\* re.compile(r'.*word.*', re.I) matched against an attribute value
MatchesI(s, word) == Contains(Lower(s), word)

(***************************************************************************)
(* Markup.  A page is the sequence, in document order, of the elements a   *)
(* discovery strategy can select; an element carries the attributes the    *)
(* parser and the extractor read.  text is the text the extractor's        *)
(* selector cascade (or its text-node fallback) finds, before stripping.   *)
(***************************************************************************)
Long50 == "aaaaaaaaaabbbbbbbbbbccccccccccddddddddddeeeeeeeeee"

FtJson == "{\"top_level_post_id\":\"77\"}"
FtBroken == "{top_level_post_id: 77"
FtPlain == "top_level_post_id=77"
FtBare == "top_level_post_id: 77"

\* fails: a call of the extractor on the element raises inside its try;
\* children: the elements nested in it, in document order.
Elem(tag, id, ft, cls, author, text) ==
    [tag |-> tag, id |-> id, data_ft |-> ft, class |-> cls, testid |-> "",
     role |-> "", sigil |-> "", author |-> author, href |-> "", text |-> text,
     fails |-> FALSE, children |-> <<>>]

\* The comment elements of the post, in document order: one with an id, two
\* without an id by the same author whose texts differ after 50 characters,
\* one whose text is blank, one of the legacy markup (data-ft).
Document ==
    << Elem("div", "c1", "", "UFIComment", "Ann", " hi "),
       Elem("div", "", "", "comment", "Ann", Long50 \o "x"),
       Elem("div", "", "", "comment", "Ann", Long50 \o "y"),
       Elem("div", "c2", "", "comment", "Cat", "  "),
       Elem("span", "", FtJson, "", "Cat", "ok") >>

\* A reply nested in a comment: a div whose class names "reply".
Reply(cls, author, text) == Elem("div", "", "", cls, author, text)

\* The author link of an element is the anchor the author selectors find: its
\* text is author and its href attribute is href ("" without the attribute).
\* A comment with eight nested reply divs: one without text, two inside
\* another, one of which makes the extractor raise, and one whose class also
\* names "comment".
Thread ==
    [Elem("div", "c3", "", "comment", "Dan", "top") EXCEPT
        !.href = "https://www.facebook.com/user/dan.1?ref=nf",
        !.children =
            << Reply("reply", "Eve", "r1"),
               Reply("reply", "Eve", " "),
               Reply("UFIReply", "Eve", "r3"),
               Reply("reply", "Gus", "r4"),
               [Reply("reply", "Gus", "r5") EXCEPT
                   !.children = << [Reply("reply", "Fay", "r5a") EXCEPT !.fails = TRUE],
                                   Reply("reply", "Fay", "r5b") >>],
               Reply("comment-reply", "Gus", "r6") >>]

\* A text node between elements: it has no tag and no attribute.
TextNode(text) == Elem("", "", "", "", "", text)

\* The markup parse_comments_from_html is called on: white space, the elements
\* of Document, one element for each of the strategies 3, 4 and 5, a comment
\* whose extraction raises, a comment with replies, and two elements whose
\* data-ft names top_level_post_id without being JSON.  The author links
\* carry a profile.php href, a /user/ href, and an href with both.
ParserDocument ==
    << TextNode(" \n") >> \o Document \o
    << [Elem("div", "", "", "", "Bob", "t3") EXCEPT
           !.testid = "UFI2Comment", !.href = "/profile.php?id=998877&foo=bar"],
       [Elem("div", "", "", "", "Bob", "t4") EXCEPT
           !.role = "article", !.href = "/groups/5/user/42/posts?x=1"],
       [Elem("span", "", "", "", "Bob", "t5") EXCEPT
           !.sigil = "comment-body", !.href = "/profile.php?id=7&next=/user/9"],
       [Elem("div", "c4", "", "comment", "Bob", "bad") EXCEPT !.fails = TRUE],
       Thread,
       Elem("span", "", FtBroken, "", "Hal", "legacy"),
       Elem("span", "", FtBare, "", "Ida", "bare") >>

\* The elements of doc at the positions in K, in document order.
RECURSIVE Rendered(_, _, _)
Rendered(doc, K, k) ==
    IF k > Len(doc) THEN <<>>
    ELSE (IF k \in K THEN <<doc[k]>> ELSE <<>>) \o Rendered(doc, K, k + 1)

\* The markup a read of the page can return: the page renders any of the
\* post's elements, at most MaxPageLen of them.
Pages ==
    {Rendered(Document, K, 1) :
        K \in {K \in SUBSET (1..Len(Document)) : Cardinality(K) <= MaxPageLen}}

\* A post in the older markup: its comments carry no id attribute and are
\* found by their data-ft, which names the post.
LegacyPage ==
    << Elem("span", "", FtJson, "", "Cat", "ok"),
       Elem("span", "", FtBroken, "", "Hal", "legacy") >>

\* The pages a harvest can be given that shows the same markup at every read.
StaticPages == Pages \cup {LegacyPage}

\* Python str(n) for a natural number n
RECURSIVE Str(_)
Str(n) ==
    IF n < 10 THEN SubSeq("0123456789", n + 1, n + 1)
    ELSE Str(n \div 10) \o SubSeq("0123456789", (n % 10) + 1, (n % 10) + 1)

\* The markup of a page that shows one comment never shown before at each
\* read: the read of pass n shows the comment with the id g<n>.
GrowingPage(n) == << Elem("div", "g" \o Str(n), "", "comment", "Zed", "more") >>

\* The markup a call of the parser can be given.
ParserPages ==
    {Rendered(ParserDocument, K, 1) :
        K \in {K \in SUBSET (1..Len(ParserDocument)) : Cardinality(K) <= MaxPageLen}}

\* find_all searches the whole tree: the elements of a markup with their
\* descendants, in document order.
RECURSIVE Flatten(_)
Flatten(elements) ==
    IF elements = <<>> THEN <<>>
    ELSE <<Head(elements)>> \o Flatten(Head(elements).children)
                            \o Flatten(Tail(elements))

(***************************************************************************)
(* _extract_comment_data                                                   *)
(***************************************************************************)
\* json.loads on the data-ft values of the model: whether it decodes, and the
\* decoded object's top_level_post_id ('' when the key is absent).
JsonLoads(s) ==
    CASE s = FtJson -> [ok |-> TRUE, top_level_post_id |-> "77"]
      [] OTHER -> [ok |-> FALSE, top_level_post_id |-> ""]

RECURSIVE SkipSpaces(_, _)
SkipSpaces(s, k) ==
    IF k <= Len(s) /\ IsSpace(CharAt(s, k)) THEN SkipSpaces(s, k + 1) ELSE k

SkipQuote(s, k) == IF k <= Len(s) /\ CharAt(s, k) \in {"\"", "'"} THEN k + 1 ELSE k

RECURSIVE DigitsFrom(_, _)
DigitsFrom(s, k) ==
    IF k <= Len(s) /\ IsDigit(CharAt(s, k))
    THEN CharAt(s, k) \o DigitsFrom(s, k + 1)
    ELSE ""

\* The match of top_level_post_id["\']?\s*:\s*["\']?(\d+) with the key at k:
\* group 1, or "" when the pattern does not match there.
IdMatchAt(s, k) ==
    LET a == SkipSpaces(s, SkipQuote(s, k + Len("top_level_post_id")))
    IN  IF a <= Len(s) /\ CharAt(s, a) = ":"
        THEN DigitsFrom(s, SkipQuote(s, SkipSpaces(s, a + 1)))
        ELSE ""

\* re.search(...): group 1 of the leftmost match, "" when there is none.
RegexTopLevelId(s) ==
    LET K == {k \in 1..(Len(s) - Len("top_level_post_id") + 1) :
                 /\ SubSeq(s, k, k + Len("top_level_post_id") - 1) = "top_level_post_id"
                 /\ IdMatchAt(s, k) # ""}
    IN  IF K = {} THEN "" ELSE IdMatchAt(s, CHOOSE k \in K : \A j \in K : k <= j)

\* comment_id: the id attribute, else data-ft; a value naming top_level_post_id
\* is decoded as JSON when it starts with "{" (the regex is the fallback of a
\* failed decode only), and becomes '' when it does not start with "{".
ExtractCommentId(element) ==
    LET raw == IF element.id # "" THEN element.id ELSE element.data_ft
    IN  IF raw # "" /\ Contains(raw, "top_level_post_id")
        THEN IF StartsWith(raw, "{")
             THEN IF JsonLoads(raw).ok
                  THEN JsonLoads(raw).top_level_post_id
                  ELSE IF RegexTopLevelId(raw) # "" THEN RegexTopLevelId(raw) ELSE raw
             ELSE ""
        ELSE raw

\* What _extract_comment_data returns when its try raises.
None == [none |-> TRUE]

\* element.find_all('div', class_=re.compile(r'.*reply.*', re.I))
IsReply(e) == e.tag = "div" /\ MatchesI(e.class, "reply")

\* The position of the first occurrence of sep in s; 0 if none.
Find(s, sep) ==
    IF Contains(s, sep)
    THEN CHOOSE k \in 1..(Len(s) - Len(sep) + 1) :
            /\ SubSeq(s, k, k + Len(sep) - 1) = sep
            /\ \A m \in 1..(k - 1) : SubSeq(s, m, m + Len(sep) - 1) # sep
    ELSE 0

\* Python s.split(sep)[0]
SplitHead(s, sep) == IF Find(s, sep) = 0 THEN s ELSE Take(s, Find(s, sep) - 1)

\* Python s.split(sep)[-1]
RECURSIVE SplitTail(_, _)
SplitTail(s, sep) ==
    IF Find(s, sep) = 0 THEN s ELSE SplitTail(DropTo(s, Find(s, sep) + Len(sep)), sep)

\* if '/user/' in href: ... elif 'profile.php?id=' in href: ...; author_id or ""
AuthorId(href) ==
    IF Contains(href, "/user/")
    THEN SplitHead(SplitHead(SplitTail(href, "/user/"), "/"), "?")
    ELSE IF Contains(href, "profile.php?id=")
    THEN SplitHead(SplitTail(href, "profile.php?id="), "&")
    ELSE ""

RECURSIVE ExtractCommentData(_), ExtractEach(_), ExtractReplies(_)

\* reply_data = self._extract_comment_data(reply_elem); if reply_data: append
ExtractEach(reply_elements) ==
    IF reply_elements = <<>> THEN <<>>
    ELSE LET reply_data == ExtractCommentData(Head(reply_elements))
         IN  (IF reply_data # None THEN <<reply_data>> ELSE <<>>)
             \o ExtractEach(Tail(reply_elements))

\* The replies without the [:5] slice.
ExtractRepliesUncut(reply_elements) == ExtractEach(reply_elements)

\* for reply_elem in reply_elements[:5]: the records that are not None
ExtractReplies(reply_elements) == ExtractEach(Take(reply_elements, MaxReplies))

\* The record built from one element (get_text(strip=True) strips the text),
\* or None when the extraction raises.
ExtractCommentData(element) ==
    IF element.fails THEN None
    ELSE [text |-> Strip(element.text),
          author |-> Strip(element.author),
          author_id |-> AuthorId(element.href),
          comment_id |-> ExtractCommentId(element),
          replies |-> ExtractReplies(SelectSeq(Flatten(element.children), IsReply))]

(***************************************************************************)
(* parse_comments_from_html                                                *)
(***************************************************************************)
Strategy1(e) == Contains(e.data_ft, "top_level_post_id")
Strategy2(e) == e.tag = "div" /\ MatchesI(e.class, "comment")
Strategy3(e) == e.tag = "div" /\ MatchesI(e.testid, "comment")
Strategy4(e) == e.tag = "div" /\ e.role = "article"
Strategy5(e) == MatchesI(e.sigil, "comment")

\* The discovery with the matches of the five strategies combined.
CommentElementsCombined(html) ==
    SelectSeq(Flatten(html), Strategy1) \o SelectSeq(Flatten(html), Strategy2)
    \o SelectSeq(Flatten(html), Strategy3) \o SelectSeq(Flatten(html), Strategy4)
    \o SelectSeq(Flatten(html), Strategy5)

\* soup.find_all for each strategy in turn; the first non-empty list is used.
CommentElements(html) ==
    LET s1 == SelectSeq(Flatten(html), Strategy1)
        s2 == SelectSeq(Flatten(html), Strategy2)
        s3 == SelectSeq(Flatten(html), Strategy3)
        s4 == SelectSeq(Flatten(html), Strategy4)
        s5 == SelectSeq(Flatten(html), Strategy5)
    IN  IF s1 # <<>> THEN s1
        ELSE IF s2 # <<>> THEN s2
        ELSE IF s3 # <<>> THEN s3
        ELSE IF s4 # <<>> THEN s4
        ELSE s5

\* The loop without its test of the text.
RECURSIVE ExtractAllUnfiltered(_)
ExtractAllUnfiltered(elements) ==
    IF elements = <<>> THEN <<>>
    ELSE LET comment_data == ExtractCommentData(Head(elements))
         IN  (IF comment_data # None THEN <<comment_data>> ELSE <<>>)
             \o ExtractAllUnfiltered(Tail(elements))

\* The loop stopping at the first candidate whose extraction returns None.
RECURSIVE ExtractAllAborting(_)
ExtractAllAborting(elements) ==
    IF elements = <<>> THEN <<>>
    ELSE LET comment_data == ExtractCommentData(Head(elements))
         IN  IF comment_data = None THEN <<>>
             ELSE (IF comment_data.text # "" THEN <<comment_data>> ELSE <<>>)
                  \o ExtractAllAborting(Tail(elements))

\* for element in comment_elements[:limit]: keep the records that are not None
\* and have text
RECURSIVE ExtractAll(_)
ExtractAll(elements) ==
    IF elements = <<>> THEN <<>>
    ELSE LET comment_data == ExtractCommentData(Head(elements))
         IN  (IF comment_data # None /\ comment_data.text # ""
              THEN <<comment_data>> ELSE <<>>)
             \o ExtractAll(Tail(elements))

\* The parser without the [:limit] slice of the candidates.
ParseCommentsFromHtmlUnsliced(html_content, lim) ==
    LET comments == ExtractAll(CommentElements(html_content))
    IN  [comments |-> comments, total_count |-> Len(comments)]

\* The parser with the slice taken after the extraction.
ParseCommentsFromHtmlSliceAfter(html_content, lim) ==
    LET comments == Take(ExtractAll(CommentElements(html_content)), lim)
    IN  [comments |-> comments, total_count |-> Len(comments)]

\* The parser counting the candidates it visited.
ParseCommentsFromHtmlCountsVisited(html_content, lim) ==
    LET visited == Take(CommentElements(html_content), lim)
    IN  [comments |-> ExtractAll(visited), total_count |-> Len(visited)]

\* not html_content or not html_content.strip(): the markup is empty or holds
\* only white space.
HtmlIsBlank(html_content) ==
    \A j \in 1..Len(html_content) :
        html_content[j].tag = "" /\ Strip(html_content[j].text) = ""

\* The parser once the backend is known to be imported: the short-circuit on
\* blank markup, the candidates, the extraction of the first lim of them.
ParseCommentsFromHtml(html_content, lim) ==
    IF HtmlIsBlank(html_content)
    THEN [comments |-> <<>>, total_count |-> 0]
    ELSE LET comments == ExtractAll(Take(CommentElements(html_content), lim))
         IN  [comments |-> comments, total_count |-> Len(comments)]

\* BeautifulSoup(html_content, 'html.parser') is called only past the
\* short-circuit.
InvokesBackend(html_content) == ~HtmlIsBlank(html_content)

\* parse_comments_from_html is a function of its arguments: its value for every
\* page and limit of the model.
Parsed ==
    [html \in ParserPages |-> [lim \in 0..MaxLimit |-> ParseCommentsFromHtml(html, lim)]]

(***************************************************************************)
(* The merge of one parse into the accumulator (the loop body's for, and   *)
(* the same for after the loop).                                           *)
(***************************************************************************)
\* comment_key = f"{author}_{text[:50]}"
CommentKey(comment) == comment.author \o "_" \o Take(comment.text, KeyTextLen)

\* comment_id = comment.get('comment_id', '') or comment_key
CommentId(comment) ==
    IF comment.comment_id # "" THEN comment.comment_id ELSE CommentKey(comment)

\* The test without the seen ids.
IsNewUnchecked(comment, seen) == comment.text # ""

\* if comment_id not in seen_comment_ids and comment.get('text')
IsNew(comment, seen) == CommentId(comment) \notin seen /\ comment.text # ""

\* The for with a new record put in front of the accumulated ones.
RECURSIVE MergeLoopPrepending(_, _, _, _)
MergeLoopPrepending(comments, acc, seen, lim) ==
    IF comments = <<>>
    THEN [all_comments |-> acc, seen_comment_ids |-> seen, new_count |-> 0]
    ELSE LET comment == Head(comments)
         IN  IF IsNew(comment, seen)
             THEN LET acc1 == <<comment>> \o acc
                      seen1 == seen \cup {CommentId(comment)}
                  IN  IF Len(acc1) >= lim
                      THEN [all_comments |-> acc1, seen_comment_ids |-> seen1,
                            new_count |-> 1]
                      ELSE LET rest == MergeLoopPrepending(Tail(comments), acc1, seen1, lim)
                           IN  [rest EXCEPT !.new_count = @ + 1]
             ELSE MergeLoopPrepending(Tail(comments), acc, seen, lim)

\* The for with a record whose id was seen put in the place of the record
\* that has it.
RECURSIVE MergeLoopReplacing(_, _, _, _)
MergeLoopReplacing(comments, acc, seen, lim) ==
    IF comments = <<>>
    THEN [all_comments |-> acc, seen_comment_ids |-> seen, new_count |-> 0]
    ELSE LET comment == Head(comments)
         IN  IF IsNew(comment, seen)
             THEN LET acc1 == Append(acc, comment)
                      seen1 == seen \cup {CommentId(comment)}
                  IN  IF Len(acc1) >= lim
                      THEN [all_comments |-> acc1, seen_comment_ids |-> seen1,
                            new_count |-> 1]
                      ELSE LET rest == MergeLoopReplacing(Tail(comments), acc1, seen1, lim)
                           IN  [rest EXCEPT !.new_count = @ + 1]
             ELSE MergeLoopReplacing(
                      Tail(comments),
                      [j \in 1..Len(acc) |->
                          IF CommentId(acc[j]) = CommentId(comment) /\ comment.text # ""
                          THEN comment ELSE acc[j]],
                      seen, lim)

\* The for over comments_to_process, with its break at the limit: the
\* accumulator, the seen ids and the number of records added.
RECURSIVE MergeLoop(_, _, _, _)
MergeLoop(comments, acc, seen, lim) ==
    IF comments = <<>>
    THEN [all_comments |-> acc, seen_comment_ids |-> seen, new_count |-> 0]
    ELSE LET comment == Head(comments)
         IN  IF IsNew(comment, seen)
             THEN LET acc1 == Append(acc, comment)
                      seen1 == seen \cup {CommentId(comment)}
                  IN  IF Len(acc1) >= lim
                      THEN [all_comments |-> acc1, seen_comment_ids |-> seen1,
                            new_count |-> 1]
                      ELSE LET rest == MergeLoop(Tail(comments), acc1, seen1, lim)
                           IN  [rest EXCEPT !.new_count = @ + 1]
             ELSE MergeLoop(Tail(comments), acc, seen, lim)

\* comments_to_process = new_comments[:limit], then the for
Merge(new_comments, acc, seen, lim) == MergeLoop(Take(new_comments, lim), acc, seen, lim)

(***************************************************************************)
(* _load_cookies_for_playwright                                            *)
(***************************************************************************)
\* The line of a cookie file in the 7-field tab-separated format.
TabLine == "example.com\tTRUE\t/\tTRUE\t0\tc_user\t12345"

\* The lines a cookie file of the model is made of.
CookieLines == {TabLine, "c_user 12345", "# a comment", "", " xs  a b \n", "single"}

\* self.cookies is None
NoCookies == [given |-> FALSE, exists |-> FALSE, readable |-> FALSE, lines |-> <<>>]

CookieFile(lines) == [given |-> TRUE, exists |-> TRUE, readable |-> TRUE, lines |-> lines]

\* self.cookies: no path, the path of no file, a file that cannot be read, or
\* a file of at most MaxCookieLines lines.
CookieFiles ==
    {NoCookies,
     [CookieFile(<<>>) EXCEPT !.exists = FALSE, !.readable = FALSE],
     [CookieFile(<<"c_user 12345">>) EXCEPT !.readable = FALSE]}
    \cup {CookieFile(lines) :
             lines \in UNION {[1..n -> CookieLines] : n \in 0..MaxCookieLines}}

\* The cookie configurations of a harvest: none, a file of one cookie, or that
\* file when it cannot be read.
HarvestCookieFiles ==
    {NoCookies,
     CookieFile(<<"c_user 12345">>),
     [CookieFile(<<"c_user 12345">>) EXCEPT !.readable = FALSE]}

\* The position of the first whitespace of s at or after k; Len(s) + 1 if none.
RECURSIVE FirstSpace(_, _)
FirstSpace(s, k) ==
    IF k > Len(s) \/ IsSpace(CharAt(s, k)) THEN k ELSE FirstSpace(s, k + 1)

\* The position of the last whitespace of s at or before k; 0 if none.
RECURSIVE LastSpace(_, _)
LastSpace(s, k) ==
    IF k < 1 \/ IsSpace(CharAt(s, k)) THEN k ELSE LastSpace(s, k - 1)

\* The split at the last run of whitespace (rsplit).
SplitLast(line) ==
    LET k == LastSpace(line, Len(line))
    IN  IF k < 1 THEN <<line>> ELSE <<RStrip(Take(line, k - 1)), DropTo(line, k + 1)>>

\* line.split(None, 1) of a stripped, non-empty line
SplitFirst(line) ==
    LET k == FirstSpace(line, 1)
    IN  IF k > Len(line) THEN <<line>> ELSE <<Take(line, k - 1), LStrip(DropTo(line, k))>>

\* The cookies one line of the file adds: none for a blank line, a comment or
\* a line of one word.
CookieOfLine(raw) ==
    LET line == Strip(raw)
        parts == SplitFirst(line)
    IN  IF line = "" \/ StartsWith(line, "#") \/ Len(parts) # 2 THEN <<>>
        ELSE << [name |-> parts[1], value |-> parts[2], domain |-> ".facebook.com",
                 path |-> "/", secure |-> TRUE] >>

RECURSIVE CookiesOfLines(_)
CookiesOfLines(lines) ==
    IF lines = <<>> THEN <<>>
    ELSE CookieOfLine(Head(lines)) \o CookiesOfLines(Tail(lines))

\* The loader without its except clause around open().
LoadCookiesForPlaywrightReadsAnyway(file) ==
    IF ~file.given \/ ~file.exists THEN <<>>
    ELSE CookiesOfLines(file.lines)

\* The list the loader returns: empty without a path, without the file, or
\* when opening it raises.
LoadCookiesForPlaywright(file) ==
    IF ~file.given \/ ~file.exists \/ ~file.readable THEN <<>>
    ELSE CookiesOfLines(file.lines)

(***************************************************************************)
(* State.                                                                  *)
(***************************************************************************)
VARIABLES
    op,                     \* the operation called: "harvest", "parse",
                            \* "load_cookies", or "parse_url_http" (the
                            \* parse-url endpoint with use_browser = false)
    cookies_file,           \* self.cookies and the file it names
    playwright_cookies,     \* the list the cookie loader returned
    limit,                  \* the limit argument
    static_dom,             \* TRUE: every read of the page returns dom
    growing,                \* TRUE: every read of the page returns a comment
                            \* no earlier read returned
    dom,                    \* the markup of a page that never changes
    page_given,             \* use_existing_page: the caller passed page
    playwright_given,       \* the caller passed playwright_instance
    user_data_dir,          \* self.user_data_dir is set (persistent profile)
    PLAYWRIGHT_AVAILABLE,   \* the import of playwright succeeded
    BeautifulSoup,          \* the import of bs4 succeeded
    pc,                     \* the place of control
    status,                 \* the local status
    i,                      \* scroll iterations begun
    no_new_comments_count,
    all_comments,
    seen_comment_ids,
    result,                 \* the dictionary being returned
    exc,                    \* an exception is propagating
    bound,                  \* browser, context, page = ... was executed
    p,                      \* the automation runtime
    browser,
    context,
    page,
    faults,                 \* the calls that have raised
    soup_made,              \* BeautifulSoup(...) has been called
    events,                 \* what happened to the session, in order: the
                            \* context created, the cookies added, goto
                            \* called, each resource closed
    response,               \* the endpoint's JSON response
    parked                  \* the frame of a second call of the harvester
                            \* that waits at an await while this one runs

args == <<op, cookies_file, limit, static_dom, growing, dom, page_given, playwright_given, user_data_dir,
          PLAYWRIGHT_AVAILABLE, BeautifulSoup, parked>>
loop == <<i, no_new_comments_count, all_comments, seen_comment_ids>>
resources == <<bound, p, browser, context, page>>
vars == <<args, playwright_cookies, pc, status, loop, result, exc, resources, faults, soup_made,
          events, response>>

EmptyResult ==
    [keys |-> {}, comments |-> <<>>, total_count |-> 0, status |-> "", success |-> FALSE]

NoResponse == [sent |-> FALSE, endpoint |-> "", keys |-> {}, success |-> FALSE]

\* No second call is in progress.
NoFrame == [pc |-> "none"]

\* The state at the call: the arguments, the client's configuration, and the
\* caller's own page and runtime when it passes them.
InitWith(static) ==
    /\ op \in {"harvest", "parse", "load_cookies", "parse_url_http"}
    /\ limit \in (IF op = "load_cookies" THEN {0}
                  ELSE IF op = "parse_url_http" THEN 1..MaxLimit ELSE 0..MaxLimit)
    /\ static_dom = static
    /\ growing = FALSE
    /\ dom \in (IF ~static \/ op \in {"load_cookies", "parse_url_http"} THEN {<<>>}
                ELSE IF op = "parse" THEN ParserPages ELSE StaticPages)
    /\ page_given \in BOOLEAN
    /\ playwright_given \in BOOLEAN
    /\ user_data_dir \in BOOLEAN
    /\ PLAYWRIGHT_AVAILABLE \in BOOLEAN
    /\ BeautifulSoup \in BOOLEAN
    /\ op = "parse" => ~page_given /\ ~playwright_given /\ ~user_data_dir
                       /\ PLAYWRIGHT_AVAILABLE
    /\ op \in {"load_cookies", "parse_url_http"} =>
          ~page_given /\ ~playwright_given /\ ~user_data_dir
          /\ PLAYWRIGHT_AVAILABLE /\ BeautifulSoup
    /\ page_given => ~user_data_dir
    /\ cookies_file \in (IF op = "load_cookies" THEN CookieFiles
                         ELSE IF op = "harvest" /\ ~page_given THEN HarvestCookieFiles
                         ELSE {NoCookies})
    /\ playwright_cookies = <<>>
    /\ pc = "call"
    /\ status = ""
    /\ i = 0
    /\ no_new_comments_count = 0
    /\ all_comments = <<>>
    /\ seen_comment_ids = {}
    /\ result = EmptyResult
    /\ exc = FALSE
    /\ bound = FALSE
    /\ p = (IF playwright_given THEN "open" ELSE "none")
    /\ browser = (IF page_given THEN "open" ELSE "none")
    /\ context = (IF page_given THEN "open" ELSE "none")
    /\ page = (IF page_given THEN "open" ELSE "none")
    /\ faults = {}
    /\ soup_made = FALSE
    /\ events = <<>>
    /\ response = NoResponse
    /\ parked = NoFrame

Init == InitWith(FALSE)

\* The call of the harvester by the scrape-post endpoint with the largest
\* limit, on a page that shows a new comment at every read.
InitGrowing ==
    /\ op = "harvest"
    /\ limit = LimitMax
    /\ static_dom = FALSE
    /\ growing = TRUE
    /\ dom = <<>>
    /\ page_given = FALSE
    /\ playwright_given = FALSE
    /\ user_data_dir = FALSE
    /\ PLAYWRIGHT_AVAILABLE = TRUE
    /\ BeautifulSoup = TRUE
    /\ cookies_file = NoCookies
    /\ playwright_cookies = <<>>
    /\ pc = "call"
    /\ status = ""
    /\ i = 0
    /\ no_new_comments_count = 0
    /\ all_comments = <<>>
    /\ seen_comment_ids = {}
    /\ result = EmptyResult
    /\ exc = FALSE
    /\ bound = FALSE
    /\ p = "none"
    /\ browser = "none"
    /\ context = "none"
    /\ page = "none"
    /\ faults = {}
    /\ soup_made = FALSE
    /\ events = <<>>
    /\ response = NoResponse
    /\ parked = NoFrame

\* What a read of the page (page.content()) can return.
ReadablePages ==
    IF static_dom THEN {dom}
    ELSE IF growing THEN {GrowingPage(i)}
    ELSE IF op = "parse" THEN ParserPages ELSE Pages

\* self.parse_comments_from_html(html_content, limit=limit) in the harvester
ParseOf(html) ==
    IF growing THEN ParseCommentsFromHtml(html, limit) ELSE Parsed[html][limit]

Raise(f) == IF f = "none" THEN {} ELSE {f}

(***************************************************************************)
(* fetch_and_parse_comments_with_browser                                   *)
(***************************************************************************)
\* if not PLAYWRIGHT_AVAILABLE: raise ImportError (before the try)
SetupError ==
    /\ pc = "call"
    /\ op = "harvest"
    /\ ~PLAYWRIGHT_AVAILABLE
    /\ pc' = "raised"
    /\ UNCHANGED <<args, events, soup_made, playwright_cookies, status, loop, result, exc, resources, faults, response>>

\* status = "started"; the accumulator; p = playwright_instance, or a runtime
\* of its own entered with __aenter__ (which may raise, inside the outer try).
Enter ==
    /\ pc = "call"
    /\ op = "harvest"
    /\ PLAYWRIGHT_AVAILABLE
    /\ status' = "started"
    /\ \E f \in {"none", "aenter"} :
          /\ f = "aenter" => ~playwright_given
          /\ faults' = faults \cup Raise(f)
          /\ p' = (IF playwright_given \/ f = "aenter" THEN p ELSE "open")
          /\ pc' = (IF f = "aenter" THEN "outer_except"
                    ELSE IF page_given THEN "load" ELSE "init")
    /\ UNCHANGED <<args, events, soup_made, playwright_cookies, loop, result, exc, bound, browser, context, page, response>>

\* The place of a call of initialize_browser in its order of calls.
InitStep(f) ==
    CASE f \in {"launch", "launch_persistent_context"} -> 1
      [] f = "new_context" -> 2
      [] f = "add_cookies" -> 3
      [] f = "new_page" -> 4
      [] f = "mouse_move" -> 5
      [] OTHER -> 6

\* The calls of initialize_browser that can raise, given the mode, whether the
\* cookie loader returned cookies and whether the profile has an open page.
InitFaults(cookies, has_pages) ==
    IF user_data_dir
    THEN {"launch_persistent_context"}
         \cup (IF cookies THEN {"add_cookies"} ELSE {})
         \cup (IF has_pages THEN {} ELSE {"new_page"})
    ELSE {"launch", "new_context", "new_page", "mouse_move"}
         \cup (IF cookies THEN {"add_cookies"} ELSE {})

\* initialize_browser without add_cookies in persistent mode.
InitContextCallsOrdinaryCookiesOnly(cookies) ==
    IF user_data_dir THEN <<"launch_persistent_context">>
    ELSE <<"new_context">> \o (IF cookies THEN <<"add_cookies">> ELSE <<>>)

\* The calls of initialize_browser that create and prepare the context, in
\* order: launch_persistent_context or browser.new_context, then
\* context.add_cookies if the cookie loader returned cookies.
InitContextCalls(cookies) ==
    <<IF user_data_dir THEN "launch_persistent_context" ELSE "new_context">>
    \o (IF cookies THEN <<"add_cookies">> ELSE <<>>)

\* if not use_existing_page: browser, context, page = await
\* self.initialize_browser(p).  A call that raises leaves what was acquired
\* before it open, and the three locals unassigned.
InitializeBrowser ==
    /\ pc = "init"
    /\ status' = "initializing_browser"
    /\ \E has_pages \in BOOLEAN :
       \E f \in InitFaults(LoadCookiesForPlaywright(cookies_file) # <<>>, has_pages)
                \cup {"none"} :
          LET n == InitStep(f)
              cookies == LoadCookiesForPlaywright(cookies_file) # <<>>
          IN  /\ faults' = faults \cup Raise(f)
              /\ events' = events \o SelectSeq(InitContextCalls(cookies),
                                                 LAMBDA c : InitStep(c) < n)
              /\ browser' = (IF ~user_data_dir /\ n > 1 THEN "open" ELSE browser)
              /\ context' = (IF n > (IF user_data_dir THEN 1 ELSE 2)
                             THEN "open" ELSE context)
              /\ page' = (IF n > 4 THEN "open" ELSE page)
              /\ bound' = (f = "none")
              /\ exc' = (f # "none")
              /\ pc' = (IF f = "none" THEN "load" ELSE "except_inner")
    /\ UNCHANGED <<args, soup_made, playwright_cookies, loop, result, p, response>>

\* page.goto, page.wait_for_timeout, the screenshot 01_initial_load;
\* status = "scrolling_and_collecting" and the loop's counters.
LoadPage ==
    /\ pc = "load"
    /\ \E f \in {"none", "goto", "wait_load", "shot_initial"} :
          /\ faults' = faults \cup Raise(f)
          /\ events' = Append(events, "goto")
          /\ exc' = (f # "none")
          /\ pc' = (IF f = "none" THEN "scroll" ELSE "finally")
          /\ status' = (IF f = "none" THEN "scrolling_and_collecting" ELSE status)
    /\ UNCHANGED <<args, soup_made, playwright_cookies, loop, result, resources, response>>

\* The place of a call of one loop pass in its order; a pass with no raising
\* call is 7.
IterStep(f) ==
    CASE f = "evaluate" -> 1
      [] f = "wait_scroll" -> 3
      [] f = "content" -> 4
      [] f = "parse_import" -> 5
      [] f = "shot_new" -> 6
      [] OTHER -> 7

\* The loop with > for >= in the stagnation test.
LoopEndsLate(acc, count, passes) ==
    \/ Len(acc) >= limit
    \/ count > max_no_new_comments
    \/ passes >= max_scrolls

\* The loop without the test of the limit.
LoopEndsNoQuota(acc, count, passes) ==
    \/ count >= max_no_new_comments
    \/ passes >= max_scrolls

\* The loop without the end of range(max_scrolls).
LoopEndsNoCeiling(acc, count, passes) ==
    \/ Len(acc) >= limit
    \/ count >= max_no_new_comments

\* The loop leaves after this pass: the limit is reached, or the stagnation
\* counter reached its threshold, or range(max_scrolls) is exhausted.
LoopEnds(acc, count, passes) ==
    \/ Len(acc) >= limit
    \/ count >= max_no_new_comments
    \/ passes >= max_scrolls

\* The counter without its reset.
NextNoNewCountNoReset(new_count, count) == IF new_count > 0 THEN count ELSE count + 1

\* no_new_comments_count after a pass that added new_count records
NextNoNewCount(new_count, count) == IF new_count > 0 THEN 0 ELSE count + 1

\* One pass of for i in range(max_scrolls).  sf: a call inside the scroll try
\* (a selector query, the first pass's screenshot, a scroll into view, a wait)
\* raised and was caught there; f: a call outside it raised (wait_scroll: the
\* wait of the except clause or the wait after the try; parse_import: the
\* parser's raise ImportError).  The first disjunct is a pass that raises
\* before the merge, the second a pass that reaches it.
ScrollIteration ==
    /\ pc = "scroll"
    /\ i < max_scrolls
    /\ i' = i + 1
    /\ \/ \E f \in {"evaluate", "wait_scroll", "content", "parse_import"} :
          \E sf \in {"none", "scroll_step"} :
             /\ f = "parse_import" <=> ~BeautifulSoup
             /\ sf # "none" => IterStep(f) > 1
             /\ faults' = faults \cup Raise(sf) \cup Raise(f)
             /\ exc' = TRUE
             /\ pc' = "finally"
             /\ UNCHANGED <<no_new_comments_count, all_comments, seen_comment_ids, soup_made>>
       \/ \E html \in ReadablePages :
          \E sf \in {"none", "scroll_step"} :
          \E f \in {"none", "shot_new"} :
             LET m == Merge(ParseOf(html).comments,
                            all_comments, seen_comment_ids, limit)
                 count == NextNoNewCount(m.new_count, no_new_comments_count)
             IN  /\ BeautifulSoup
                 /\ soup_made' = (soup_made \/ InvokesBackend(html))
                 /\ f = "shot_new" => m.new_count > 0
                 /\ faults' = faults \cup Raise(sf) \cup Raise(f)
                 /\ all_comments' = m.all_comments
                 /\ seen_comment_ids' = m.seen_comment_ids
                 /\ no_new_comments_count' =
                        (IF f = "none" THEN count ELSE no_new_comments_count)
                 /\ exc' = (f # "none")
                 /\ pc' = (IF f # "none" THEN "finally"
                           ELSE IF LoopEnds(m.all_comments, count, i + 1) THEN "final"
                           ELSE "scroll")
    /\ UNCHANGED <<args, events, playwright_cookies, status, result, resources, response>>

\* The end of the harvest without the final read: the result is built from
\* what the loop accumulated.
FinalizeNoRead ==
    /\ pc = "final"
    /\ \E f \in {"none", "shot_final"} :
          LET kept == Take(all_comments, limit)
          IN  /\ faults' = faults \cup Raise(f)
              /\ exc' = (f # "none")
              /\ all_comments' = (IF f = "none" THEN kept ELSE all_comments)
              /\ result' = (IF f = "none"
                            THEN [EmptyResult EXCEPT !.keys = {"comments", "total_count"},
                                                     !.comments = kept,
                                                     !.total_count = Len(kept)]
                            ELSE result)
              /\ pc' = "finally"
    /\ UNCHANGED <<args, events, soup_made, playwright_cookies, status, i, no_new_comments_count,
                   seen_comment_ids, resources, response>>

\* After the loop: the screenshot 03_final_state, one more read, parse and
\* merge, all_comments[:limit], and result = {comments, total_count}.
Finalize ==
    /\ pc = "final"
    /\ \E html \in ReadablePages :
       \E f \in {"none", "shot_final", "content_final"} :
          LET ef == IF f = "none" /\ ~BeautifulSoup THEN "parse_import" ELSE f
              m == Merge(ParseOf(html).comments,
                         all_comments, seen_comment_ids, limit)
              kept == Take(m.all_comments, limit)
          IN  /\ faults' = faults \cup Raise(ef)
              /\ exc' = (ef # "none")
              /\ soup_made' = (soup_made \/ (ef = "none" /\ InvokesBackend(html)))
              /\ all_comments' = (IF ef = "none" THEN kept ELSE all_comments)
              /\ seen_comment_ids' =
                     (IF ef = "none" THEN m.seen_comment_ids ELSE seen_comment_ids)
              /\ result' = (IF ef = "none"
                            THEN [EmptyResult EXCEPT !.keys = {"comments", "total_count"},
                                                     !.comments = kept,
                                                     !.total_count = Len(kept)]
                            ELSE result)
              /\ pc' = "finally"
    /\ UNCHANGED <<args, events, playwright_cookies, status, i, no_new_comments_count, resources, response>>

\* The teardown with the browser closed before the context.
TeardownOrderBrowserFirst == <<"page_close", "browser_close", "context_close", "aexit">>

\* The close calls in the order both teardown blocks make them: page.close(),
\* context.close(), browser.close(), p.__aexit__.
TeardownOrder == <<"page_close", "context_close", "browser_close", "aexit">>

\* The place of a close call in that order; a teardown with no raising call
\* is 5.
CloseStep(f) ==
    IF \E k \in 1..Len(TeardownOrder) : TeardownOrder[k] = f
    THEN CHOOSE k \in 1..Len(TeardownOrder) : TeardownOrder[k] = f
    ELSE Len(TeardownOrder) + 1

\* The resource each close call closes.
Closes ==
    [page_close |-> page, context_close |-> context, browser_close |-> browser, aexit |-> p]

\* The resources a teardown block closes when its call at place n raises, in
\* the order it closes them: those that were open, whose close call its
\* guards (calls) let through, and whose call comes before n.
Released(calls, n) ==
    SelectSeq(TeardownOrder,
              LAMBDA c : calls[c] /\ CloseStep(c) < n /\ Closes[c] = "open")

\* A resource after the close call at place k of a teardown in which the call
\* at place n raises: closed when its call is made and returns.
Closed(state, called, k, n) == IF called /\ k < n THEN "closed" ELSE state

\* The finally block without its test of use_existing_page.
FinallyCallsUnguarded ==
    [page_close |-> page = "open",
     context_close |-> TRUE,
     browser_close |-> ~user_data_dir,
     aexit |-> ~playwright_given]

\* The finally block.  It closes only what the harvester acquired:
\* page.close() unless the page is closed, context.close(), browser.close()
\* in ordinary mode, p.__aexit__ unless the runtime was passed in.  The body
\* of the try is left: nothing reads its locals (the counters, the
\* accumulator, the seen ids) after it, result holds the comments.
FinallyCalls ==
    [page_close |-> ~page_given /\ page = "open",
     context_close |-> ~page_given,
     browser_close |-> ~page_given /\ ~user_data_dir,
     aexit |-> ~page_given /\ ~playwright_given]

Finally ==
    /\ pc = "finally"
    /\ i' = 0
    /\ no_new_comments_count' = 0
    /\ all_comments' = <<>>
    /\ seen_comment_ids' = {}
    /\ \E f \in {"none", "page_close", "context_close", "browser_close", "aexit"} :
          LET n == CloseStep(f)
              calls == FinallyCalls
          IN  /\ f # "none" => calls[f]
              /\ faults' = faults \cup (IF f = "none" THEN {} ELSE {"close"})
              /\ events' = events \o Released(calls, n)
              /\ page' = Closed(page, calls.page_close, CloseStep("page_close"), n)
              /\ context' = Closed(context, calls.context_close, CloseStep("context_close"), n)
              /\ browser' = Closed(browser, calls.browser_close, CloseStep("browser_close"), n)
              /\ p' = Closed(p, calls.aexit, CloseStep("aexit"), n)
              /\ exc' = (exc \/ f # "none")
              /\ pc' = (IF exc \/ f # "none" THEN "except_inner" ELSE "assemble")
    /\ UNCHANGED <<args, soup_made, playwright_cookies, status, result, bound, response>>

\* except Exception as inner_e: the closes guarded by 'x' in locals() and x,
\* then raise.  context and browser are locals only once initialize_browser
\* has returned.
ExceptCalls ==
    [page_close |-> ~page_given /\ bound /\ page = "open",
     context_close |-> ~page_given /\ bound,
     browser_close |-> ~page_given /\ bound /\ ~user_data_dir,
     aexit |-> ~page_given /\ ~playwright_given]

\* The handler without its raise: the harvest goes on to assemble the result.
ExceptInnerSwallows ==
    /\ pc = "except_inner"
    /\ pc' = "assemble"
    /\ UNCHANGED <<args, events, soup_made, playwright_cookies, status, loop, result, exc, resources, faults, response>>

ExceptInner ==
    /\ pc = "except_inner"
    /\ \E f \in {"none", "page_close", "context_close", "browser_close", "aexit"} :
          LET n == CloseStep(f)
              calls == ExceptCalls
          IN  /\ f # "none" => calls[f]
              /\ faults' = faults \cup (IF f = "none" THEN {} ELSE {"close"})
              /\ events' = events \o Released(calls, n)
              /\ page' = Closed(page, calls.page_close, CloseStep("page_close"), n)
              /\ context' = Closed(context, calls.context_close, CloseStep("context_close"), n)
              /\ browser' = Closed(browser, calls.browser_close, CloseStep("browser_close"), n)
              /\ p' = Closed(p, calls.aexit, CloseStep("aexit"), n)
              /\ pc' = "outer_except"
    /\ UNCHANGED <<args, soup_made, playwright_cookies, status, loop, result, exc, bound, response>>

\* The status without the case of an empty harvest.
CompletedStatusAlways(comments_count) == "completed"

\* status of a harvest that did not raise
CompletedStatus(comments_count) ==
    IF comments_count > 0 THEN "completed" ELSE "completed_no_comments"

\* The result with its metadata, success = True.
ReturnCompleted ==
    /\ pc = "assemble"
    /\ status' = CompletedStatus(result.total_count)
    /\ result' = [result EXCEPT
                    !.keys = @ \cup {"url", "fetched_at", "started_at", "duration_seconds",
                                     "method", "status", "success"},
                    !.status = CompletedStatus(result.total_count),
                    !.success = TRUE]
    /\ pc' = "returned"
    /\ UNCHANGED <<args, events, soup_made, playwright_cookies, loop, exc, resources, faults, response>>

\* The dictionary the outer except Exception returns.
FailedResult ==
    [keys |-> {"url", "status", "success", "error", "started_at", "fetched_at",
               "duration_seconds", "comments", "total_count"},
     comments |-> <<>>, total_count |-> 0, status |-> "failed", success |-> FALSE]

ReturnFailed ==
    /\ pc = "outer_except"
    /\ status' = "failed"
    /\ result' = FailedResult
    /\ exc' = FALSE
    /\ pc' = "returned"
    /\ UNCHANGED <<args, events, soup_made, playwright_cookies, loop, resources, faults, response>>

(***************************************************************************)
(* parse_comments_from_html called on a static snapshot                    *)
(***************************************************************************)
\* The call without the short-circuit: the backend is given blank markup too.
ParseHtmlNoShortCircuit ==
    /\ pc = "call"
    /\ op = "parse"
    /\ \E html \in ReadablePages :
          IF BeautifulSoup
          THEN /\ result' = [EmptyResult EXCEPT
                               !.keys = {"comments", "total_count"},
                               !.comments = Parsed[html][limit].comments,
                               !.total_count = Parsed[html][limit].total_count]
               /\ soup_made' = TRUE
               /\ pc' = "returned"
          ELSE /\ result' = result
               /\ soup_made' = soup_made
               /\ pc' = "raised"
    /\ UNCHANGED <<args, events, playwright_cookies, status, loop, exc, resources, faults, response>>

\* if BeautifulSoup is None: raise ImportError comes first, whatever the
\* markup; then the short-circuit on blank markup; then BeautifulSoup(...),
\* the candidates and the extraction.
ParseHtml ==
    /\ pc = "call"
    /\ op = "parse"
    /\ \E html \in ReadablePages :
          IF BeautifulSoup
          THEN /\ result' = [EmptyResult EXCEPT
                               !.keys = {"comments", "total_count"},
                               !.comments = Parsed[html][limit].comments,
                               !.total_count = Parsed[html][limit].total_count]
               /\ soup_made' = InvokesBackend(html)
               /\ pc' = "returned"
          ELSE /\ result' = result
               /\ soup_made' = soup_made
               /\ pc' = "raised"
    /\ UNCHANGED <<args, events, playwright_cookies, status, loop, exc, resources, faults, response>>

\* A second call that skips the records the first call returned.
ParseHtmlAgainCached ==
    /\ pc = "returned"
    /\ op = "parse"
    /\ \E html \in ReadablePages :
          LET Fresh(comment_data) ==
                  \A j \in 1..Len(result.comments) : result.comments[j] # comment_data
              comments == SelectSeq(Parsed[html][limit].comments, Fresh)
          IN  /\ result' = [EmptyResult EXCEPT
                               !.keys = {"comments", "total_count"},
                               !.comments = comments,
                               !.total_count = Len(comments)]
              /\ soup_made' = (soup_made \/ InvokesBackend(html))
    /\ pc' = "reparsed"
    /\ UNCHANGED <<args, events, playwright_cookies, status, loop, exc, resources, faults, response>>

\* A second call of parse_comments_from_html by the same client, after the
\* first returned.
ParseHtmlAgain ==
    /\ pc = "returned"
    /\ op = "parse"
    /\ \E html \in ReadablePages :
          /\ result' = [EmptyResult EXCEPT
                           !.keys = {"comments", "total_count"},
                           !.comments = Parsed[html][limit].comments,
                           !.total_count = Parsed[html][limit].total_count]
          /\ soup_made' = (soup_made \/ InvokesBackend(html))
    /\ pc' = "reparsed"
    /\ UNCHANGED <<args, events, playwright_cookies, status, loop, exc, resources, faults, response>>

(***************************************************************************)
(* _load_cookies_for_playwright called on its own                          *)
(***************************************************************************)
LoadCookies ==
    /\ pc = "call"
    /\ op = "load_cookies"
    /\ playwright_cookies' = LoadCookiesForPlaywright(cookies_file)
    /\ pc' = "returned"
    /\ UNCHANGED <<args, events, soup_made, status, loop, result, exc, resources, faults, response>>

(***************************************************************************)
(* The endpoints of src/main.py.  A request's limit is validated to be at  *)
(* least 1, the client is built without a profile directory, and neither a *)
(* page nor a runtime is passed to the harvester.                          *)
(***************************************************************************)
FromEndpoint ==
    /\ limit >= 1
    /\ ~page_given
    /\ ~playwright_given
    /\ ~user_data_dir

\* return {"success": True, ...}: whatever the dictionary the client returned
OkResponse(endpoint, keys) ==
    [sent |-> TRUE, endpoint |-> endpoint, keys |-> keys, success |-> TRUE]

\* raise HTTPException, answered by http_exception_handler
ErrorResponse(endpoint) ==
    [sent |-> TRUE, endpoint |-> endpoint, keys |-> {"error", "status_code"},
     success |-> FALSE]

ScrapePostRespond ==
    /\ pc \in {"returned", "raised"}
    /\ op = "harvest"
    /\ FromEndpoint
    /\ response' = (IF pc = "returned"
                    THEN OkResponse("scrape-post", {"success", "result", "url",
                                    "account_name", "post_id", "fetched_at"})
                    ELSE ErrorResponse("scrape-post"))
    /\ pc' = "responded"
    /\ UNCHANGED <<args, events, soup_made, playwright_cookies, status, loop, result, exc, resources, faults>>

ParseUrlRespond ==
    /\ pc \in {"returned", "raised"}
    /\ op = "harvest"
    /\ FromEndpoint
    /\ response' = (IF pc = "returned"
                    THEN OkResponse("parse-url", {"success", "data", "status", "message"})
                    ELSE ErrorResponse("parse-url"))
    /\ pc' = "responded"
    /\ UNCHANGED <<args, events, soup_made, playwright_cookies, status, loop, result, exc, resources, faults>>

\* parse-url with use_browser = false: the handler calls
\* client.fetch_and_parse_comments_from_url, which FacebookScraperClient does
\* not define; the AttributeError is caught by except Exception and raised as
\* HTTPException(500).
ParseUrlHttpRespond ==
    /\ pc = "call"
    /\ op = "parse_url_http"
    /\ response' = ErrorResponse("parse-url")
    /\ pc' = "responded"
    /\ UNCHANGED <<args, events, soup_made, playwright_cookies, status, loop, result, exc, resources, faults>>

ParseHtmlRespond ==
    /\ pc \in {"returned", "raised"}
    /\ op = "parse"
    /\ FromEndpoint
    /\ response' = (IF pc = "returned"
                    THEN OkResponse("parse-html", {"success", "data", "parsed_at"})
                    ELSE ErrorResponse("parse-html"))
    /\ pc' = "responded"
    /\ UNCHANGED <<args, events, soup_made, playwright_cookies, status, loop, result, exc, resources, faults>>

Next ==
    \/ SetupError
    \/ Enter
    \/ InitializeBrowser
    \/ LoadPage
    \/ ScrollIteration
    \/ Finalize
    \/ Finally
    \/ ExceptInner
    \/ ReturnCompleted
    \/ ReturnFailed
    \/ ParseHtml
    \/ ParseHtmlAgain
    \/ LoadCookies
    \/ ScrapePostRespond
    \/ ParseUrlRespond
    \/ ParseUrlHttpRespond
    \/ ParseHtmlRespond

Spec == Init /\ [][Next]_vars

\* The harvest of a page whose markup never changes.
SpecStatic == InitWith(TRUE) /\ [][Next]_vars

\* The steps of a harvest called by an endpoint.
NextHarvest ==
    \/ SetupError
    \/ Enter
    \/ InitializeBrowser
    \/ LoadPage
    \/ ScrollIteration
    \/ Finalize
    \/ Finally
    \/ ExceptInner
    \/ ReturnCompleted
    \/ ReturnFailed
    \/ ScrapePostRespond
    \/ ParseUrlRespond

\* The harvests an endpoint calls, on a page that shows anything at each read
\* or on the growing page, with each step taken once it can be: the code is
\* sequential and every call it awaits returns or raises.
SpecLive ==
    /\ (Init /\ op = "harvest" /\ FromEndpoint) \/ InitGrowing
    /\ [][NextHarvest]_vars
    /\ WF_vars(NextHarvest)

(***************************************************************************)
(* Two requests served at once.  Each request handler builds a client of   *)
(* its own (get_facebook_client) and awaits the harvester; on the one      *)
(* event loop a call runs until it awaits, and the other call may run      *)
(* then.  What a call keeps between its steps are its arguments and the    *)
(* locals of its coroutine: the frame.  The module's import flags and the  *)
(* configuration read from the environment are the same for both.          *)
(***************************************************************************)
\* The arguments and locals of the call that is running.
Frame ==
    [limit |-> limit, dom |-> dom, playwright_cookies |-> playwright_cookies,
     pc |-> pc, status |-> status, i |-> i,
     no_new_comments_count |-> no_new_comments_count,
     all_comments |-> all_comments, seen_comment_ids |-> seen_comment_ids,
     result |-> result, exc |-> exc, bound |-> bound, p |-> p,
     browser |-> browser, context |-> context, page |-> page,
     faults |-> faults, soup_made |-> soup_made, events |-> events,
     response |-> response]

\* The frame of a call of the harvester on the page html, before its first
\* step.
NewFrame(html, lim) ==
    [limit |-> lim, dom |-> html, playwright_cookies |-> <<>>,
     pc |-> "call", status |-> "", i |-> 0, no_new_comments_count |-> 0,
     all_comments |-> <<>>, seen_comment_ids |-> {},
     result |-> EmptyResult, exc |-> FALSE, bound |-> FALSE, p |-> "none",
     browser |-> "none", context |-> "none", page |-> "none",
     faults |-> {}, soup_made |-> FALSE, events |-> <<>>,
     response |-> NoResponse]

\* The switch with seen_comment_ids kept by the client class, one set for
\* both calls.
SwitchSharingSeen ==
    /\ parked.pc # "none"
    /\ parked' = Frame
    /\ limit' = parked.limit
    /\ dom' = parked.dom
    /\ playwright_cookies' = parked.playwright_cookies
    /\ pc' = parked.pc
    /\ status' = parked.status
    /\ i' = parked.i
    /\ no_new_comments_count' = parked.no_new_comments_count
    /\ all_comments' = parked.all_comments
    /\ seen_comment_ids' = seen_comment_ids
    /\ result' = parked.result
    /\ exc' = parked.exc
    /\ bound' = parked.bound
    /\ p' = parked.p
    /\ browser' = parked.browser
    /\ context' = parked.context
    /\ page' = parked.page
    /\ faults' = parked.faults
    /\ soup_made' = parked.soup_made
    /\ events' = parked.events
    /\ response' = parked.response
    /\ UNCHANGED <<op, cookies_file, static_dom, growing, page_given, playwright_given,
                   user_data_dir, PLAYWRIGHT_AVAILABLE, BeautifulSoup>>

\* The running call awaits (every step of the harvester ends at an await, or
\* with its return) and the event loop resumes the other call: its frame
\* becomes the running one.  all_comments,
\* seen_comment_ids, p, browser, context and page are locals of the
\* coroutine, so each call finds its own again.
Switch ==
    /\ parked.pc # "none"
    /\ parked' = Frame
    /\ limit' = parked.limit
    /\ dom' = parked.dom
    /\ playwright_cookies' = parked.playwright_cookies
    /\ pc' = parked.pc
    /\ status' = parked.status
    /\ i' = parked.i
    /\ no_new_comments_count' = parked.no_new_comments_count
    /\ all_comments' = parked.all_comments
    /\ seen_comment_ids' = parked.seen_comment_ids
    /\ result' = parked.result
    /\ exc' = parked.exc
    /\ bound' = parked.bound
    /\ p' = parked.p
    /\ browser' = parked.browser
    /\ context' = parked.context
    /\ page' = parked.page
    /\ faults' = parked.faults
    /\ soup_made' = parked.soup_made
    /\ events' = parked.events
    /\ response' = parked.response
    /\ UNCHANGED <<op, cookies_file, static_dom, growing, page_given, playwright_given,
                   user_data_dir, PLAYWRIGHT_AVAILABLE, BeautifulSoup>>

\* Two posts whose pages show the same first comment and then a comment of
\* the same author that differs past its first 50 characters.
PostA == << Document[1], Document[2] >>
PostB == << Document[1], Document[3] >>

\* Two requests to the endpoints at once, one for each post, both with the
\* limit MaxLimit.
InitPair ==
    /\ op = "harvest"
    /\ limit = MaxLimit
    /\ static_dom = TRUE
    /\ growing = FALSE
    /\ dom = PostA
    /\ page_given = FALSE
    /\ playwright_given = FALSE
    /\ user_data_dir = FALSE
    /\ PLAYWRIGHT_AVAILABLE \in BOOLEAN
    /\ BeautifulSoup = TRUE
    /\ cookies_file = NoCookies
    /\ playwright_cookies = <<>>
    /\ pc = "call"
    /\ status = ""
    /\ i = 0
    /\ no_new_comments_count = 0
    /\ all_comments = <<>>
    /\ seen_comment_ids = {}
    /\ result = EmptyResult
    /\ exc = FALSE
    /\ bound = FALSE
    /\ p = "none"
    /\ browser = "none"
    /\ context = "none"
    /\ page = "none"
    /\ faults = {}
    /\ soup_made = FALSE
    /\ events = <<>>
    /\ response = NoResponse
    /\ parked = NewFrame(PostB, MaxLimit)

NextPair == NextHarvest \/ Switch

\* Two harvests in ordinary mode interleaved at their awaits.
SpecPair == InitPair /\ [][NextPair]_vars

(***************************************************************************)
(* Properties.                                                             *)
(***************************************************************************)
\* The uniqueness key of a record (spec section 3): comment_id if non-empty,
\* else author, "_" and the first 50 characters of text.
UniquenessKey(r) ==
    IF r.comment_id # "" THEN r.comment_id
    ELSE r.author \o "_" \o SubSeq(r.text, 1, Min(50, Len(r.text)))

Returned == pc \in {"returned", "responded"} /\ "comments" \in result.keys

\* C1: whatever the limit and the pages read, the comments list the harvester
\* returns and the one parse_comments_from_html returns have at most limit
\* records.
C1_LimitRespected == Len(result.comments) <= limit

\* A harvest returned limit records, limit at least 2, after reading pages.
C1_Witness ==
    /\ Returned
    /\ op = "harvest"
    /\ result.success
    /\ limit >= 2
    /\ Len(result.comments) = limit

\* C2: the uniqueness keys of the records of one harvest result are pairwise
\* different.
C2_UniqueKeys ==
    op = "harvest" =>
        \A j, k \in 1..Len(result.comments) :
            j # k => UniquenessKey(result.comments[j]) # UniquenessKey(result.comments[k])

\* A harvest returned two records, one of them keyed by author and text.
C2_Witness ==
    /\ Returned
    /\ op = "harvest"
    /\ Len(result.comments) >= 2
    /\ \E j \in 1..Len(result.comments) : result.comments[j].comment_id = ""

\* The loop of a harvest has been left by its for statement or a break.
LoopLeft == op = "harvest" /\ pc = "final"

\* C3 as stated, for a limit of at least 1: with the same page content in
\* every iteration, the loop is left after exactly max_no_new_comments
\* consecutive iterations that added nothing, before max_scrolls.
C3_StagnationStopAlways ==
    LoopLeft /\ limit >= 1 =>
        no_new_comments_count = max_no_new_comments /\ i < max_scrolls

\* C3: with the same page content in every iteration and an accumulator that
\* stays below limit, the loop is left after exactly max_no_new_comments
\* consecutive iterations that added nothing (the iteration that added the
\* page's comments, if any, and four more), never running on to max_scrolls;
\* and no iteration starts with the stagnation counter at its threshold.
C3_StagnationStop ==
    /\ pc = "scroll" => no_new_comments_count < max_no_new_comments
    /\ LoopLeft /\ Len(all_comments) < limit =>
          /\ no_new_comments_count = max_no_new_comments
          /\ i = max_no_new_comments + (IF all_comments # <<>> THEN 1 ELSE 0)
          /\ i < max_scrolls

\* The loop was left on a page that never changed, after the pass that added
\* its comments and four that added nothing.
C3_Witness ==
    /\ static_dom
    /\ LoopLeft
    /\ all_comments # <<>>
    /\ Len(all_comments) < limit
    /\ no_new_comments_count = max_no_new_comments
    /\ i = max_no_new_comments + 1

\* C4 as stated: no scroll iteration starts once the accumulator holds at
\* least limit records.
C4_NoIterationAtQuota == pc = "scroll" => Len(all_comments) < limit

\* C4: no scroll iteration after the first starts once the accumulator holds
\* at least limit records; a first parse that yields at least limit records is
\* followed by no second iteration.
C4_QuotaStop ==
    pc = "scroll" /\ i >= 1 => Len(all_comments) < limit

\* The first parse filled the accumulator to a limit of at least 1 and the
\* loop was left after that one iteration.
C4_Witness ==
    /\ LoopLeft
    /\ limit >= 1
    /\ i = 1
    /\ Len(all_comments) = limit

\* The calls on the browser and its runtime whose exception the harvester
\* does not catch where it is raised.
AbortingCalls ==
    {"aenter", "launch", "launch_persistent_context", "new_context", "add_cookies",
     "new_page", "mouse_move", "goto", "wait_load", "shot_initial", "evaluate",
     "wait_scroll", "content", "shot_new", "shot_final", "content_final", "close"}

\* The harvester has returned to its caller.
HarvestReturned == op = "harvest" /\ pc \in {"returned", "responded"} /\ result.keys # {}

\* C5 as stated: a harvest in which any call on the browser raised returns the
\* failed result.
C5_AnyExceptionFails ==
    HarvestReturned /\ faults \ {"parse_import"} # {} => result = FailedResult

\* C5: a harvest in which a call on the browser raised, other than one caught
\* inside the scroll step of an iteration, does not propagate the exception
\* and returns the failed result (success false, status "failed", an error,
\* the timing keys, no comments, total_count 0), whatever was accumulated.
C5_UncaughtExceptionFails ==
    /\ op = "harvest" /\ faults # {} => pc # "raised"
    /\ HarvestReturned /\ faults \cap AbortingCalls # {} =>
          /\ result = FailedResult
          /\ status = "failed"

\* The screenshot of an iteration that had added comments raised, and the
\* harvest returned the failed result.
C5_Witness ==
    /\ HarvestReturned
    /\ "shot_new" \in faults
    /\ result = FailedResult

\* C6: a harvester that acquired its own session and whose close calls all
\* returned has no browser, context or page left open when it returns.
C6_AllReleased ==
    HarvestReturned /\ ~page_given /\ "close" \notin faults =>
        browser # "open" /\ context # "open" /\ page # "open"

\* C7: a page the caller supplied, its context and its browser are never
\* closed, and a runtime the caller supplied is never exited.
C7_CallerResourcesKept ==
    /\ page_given => page = "open" /\ context = "open" /\ browser = "open"
    /\ playwright_given => p = "open"

\* A harvest on a supplied page and runtime returned the failed result.
C7_Witness ==
    /\ HarvestReturned
    /\ page_given
    /\ playwright_given
    /\ faults # {}
    /\ ~result.success

\* The call an endpoint made failed: it raised, or the harvester returned a
\* failed result.
CallFailed == result.keys = {} \/ (op = "harvest" /\ ~result.success)

\* C8: every response carries success, and the response to a call that failed
\* has success false and an error.
C8_ResponseReportsFailure ==
    response.sent =>
        /\ "success" \in response.keys
        /\ CallFailed => ~response.success /\ "error" \in response.keys

ScreenshotCalls == {"shot_initial", "shot_new", "shot_final"}

\* C9: a harvest in which nothing but screenshots raised returns success, as
\* the harvest in which they were taken does.
C9_ScreenshotFailureHarmless ==
    HarvestReturned /\ faults # {} /\ faults \subseteq ScreenshotCalls => result.success

\* C10: a scroll iteration in which the scroll step, the scroll-position
\* evaluation or the page content read raises does not abort the harvest: the
\* loop goes on or is left by its own tests, and the accumulator keeps its
\* records.
C10_IterationErrorRecovered ==
    [][(/\ pc = "scroll"
        /\ faults' # faults
        /\ (faults' \ faults) \subseteq {"scroll_step", "evaluate", "content"})
       => /\ pc' \in {"scroll", "final"}
          /\ Len(all_comments') >= Len(all_comments)
          /\ SubSeq(all_comments', 1, Len(all_comments)) = all_comments]_vars

\* A backend the operation needs is not importable.
SetupMissing == ~PLAYWRIGHT_AVAILABLE \/ (op = "parse" /\ ~BeautifulSoup)

\* C11: an operation raises to its caller only for a missing backend, and a
\* harvest with a missing backend (playwright or BeautifulSoup) raises before
\* any browser work: it launches no browser, context or page and returns no
\* result.
C11_SetupErrorBeforeBrowserWork ==
    /\ pc = "raised" => SetupMissing
    /\ op = "harvest" /\ (~PLAYWRIGHT_AVAILABLE \/ ~BeautifulSoup) =>
          /\ result.keys = {}
          /\ ~page_given => browser = "none" /\ context = "none" /\ page = "none"

\* The place of a status in the order the harvester assigns them.
StatusRank(s) ==
    CASE s = "" -> 0
      [] s = "started" -> 1
      [] s = "initializing_browser" -> 2
      [] s = "scrolling_and_collecting" -> 3
      [] OTHER -> 4

\* C12 as stated: the status of every result a harvest returns is completed or
\* failed.
C12_TerminalCompletedOrFailed ==
    HarvestReturned => result.status \in {"completed", "failed"}

\* C12: the status of a harvest moves only forward through started,
\* initializing_browser (skipped on a supplied page) and
\* scrolling_and_collecting to a terminal status, and the status of a
\* returned result is completed (success, at least one comment),
\* completed_no_comments (success, no comment) or failed.
C12_StatusOrder ==
    /\ [](HarvestReturned =>
            /\ result.status = status
            /\ result.status \in {"completed", "completed_no_comments", "failed"}
            /\ result.status = "completed" <=> result.success /\ result.total_count > 0
            /\ result.status = "completed_no_comments" <=>
                   result.success /\ result.total_count = 0
            /\ result.status = "failed" <=> ~result.success)
    /\ [][/\ StatusRank(status') >= StatusRank(status)
          /\ StatusRank(status) = 4 => status' = status
          /\ status # status' /\ status' = "initializing_browser" => ~page_given
          /\ status # status' /\ status' = "scrolling_and_collecting" =>
                 status = (IF page_given THEN "started" ELSE "initializing_browser")]_vars

\* A harvest that found no comment returned, with success.
C12_Witness ==
    /\ HarvestReturned
    /\ result.success
    /\ result.status = "completed_no_comments"
    /\ status = "completed_no_comments"

\* A call of parse_comments_from_html on the markup dom has returned.
ParseReturned == op = "parse" /\ static_dom /\ pc \in {"returned", "responded"}
                 /\ result.keys # {}

\* The candidates of the markup dom that the parser's loop visits.
Visited == Take(CommentElements(dom), limit)

\* A text that is empty or only whitespace.
IsBlank(text) == \A k \in 1..Len(text) : IsSpace(CharAt(text, k))

\* C13: no record of the comments list the parser returns, or the harvester
\* returns, has an empty or whitespace-only text.
C13_NoBlankText ==
    \A j \in 1..Len(result.comments) : ~IsBlank(result.comments[j].text)

\* The parser visited a candidate with a whitespace-only text and one with
\* text, and returned a record.
C13_Witness ==
    /\ ParseReturned
    /\ \E k \in 1..Len(Visited) : ~Visited[k].fails /\ IsBlank(Visited[k].text)
    /\ Len(result.comments) >= 1

\* The extractor returns a record with text for the element.
HasText(e) == ~e.fails /\ ~IsBlank(e.text)

\* C14 as stated: a parse of markup with more than limit candidates returns
\* exactly limit records.
C14_ExactlyLimit ==
    ParseReturned /\ Len(CommentElements(dom)) > limit => Len(result.comments) = limit

\* C14: the parser returns, in discovery order, the records of those of the
\* first limit candidates that yield a record with text; with more than limit
\* candidates it returns exactly limit records when each of the first limit
\* yields one, and fewer otherwise.
C14_FirstCandidatesKept ==
    ParseReturned =>
        LET kept == SelectSeq(Visited, HasText)
        IN  /\ Len(result.comments) = Len(kept)
            /\ \A j \in 1..Len(kept) : result.comments[j] = ExtractCommentData(kept[j])
            /\ Len(CommentElements(dom)) > limit =>
                  (Len(result.comments) = limit <=> \A k \in 1..limit : HasText(Visited[k]))

\* A parse of markup with more candidates than a limit of at least 1 returned
\* limit records, the first of them the first candidate's.
C14_Witness ==
    /\ ParseReturned
    /\ limit >= 1
    /\ Len(CommentElements(dom)) > limit
    /\ Len(result.comments) = limit
    /\ result.comments[1] = ExtractCommentData(CommentElements(dom)[1])

\* The element is matched by the n-th discovery strategy of spec section 4.3:
\* data-ft naming top_level_post_id, a div whose class names comment, a div
\* whose test id names comment, a div of role article, data-sigil naming
\* comment.
StrategyMatches(n, e) ==
    CASE n = 1 -> Contains(e.data_ft, "top_level_post_id")
      [] n = 2 -> e.tag = "div" /\ Contains(Lower(e.class), "comment")
      [] n = 3 -> e.tag = "div" /\ Contains(Lower(e.testid), "comment")
      [] n = 4 -> e.tag = "div" /\ e.role = "article"
      [] OTHER -> Contains(Lower(e.sigil), "comment")

\* The strategies that match some element of the markup dom.
Yielding ==
    {n \in 1..5 : \E k \in 1..Len(Flatten(dom)) : StrategyMatches(n, Flatten(dom)[k])}

\* C15: the returned records are those of the candidates of the first
\* strategy, in the fixed order, that matches an element, and of no other
\* strategy; markup matched by strategy 1 and strategy 2 yields records of
\* strategy 1's matches only.
C15_CascadePriority ==
    ParseReturned =>
        IF Yielding = {} THEN result.comments = <<>>
        ELSE LET n == CHOOSE m \in Yielding : \A o \in Yielding : m <= o
                 Used(e) == StrategyMatches(n, e)
                 kept == SelectSeq(Take(SelectSeq(Flatten(dom), Used), limit), HasText)
             IN  /\ Len(result.comments) = Len(kept)
                 /\ \A j \in 1..Len(kept) : result.comments[j] = ExtractCommentData(kept[j])
                 /\ \A k \in 1..Len(Flatten(dom)) :
                       HasText(Flatten(dom)[k]) /\ ~Used(Flatten(dom)[k]) =>
                           \A j \in 1..Len(result.comments) :
                               result.comments[j] # ExtractCommentData(Flatten(dom)[k])

\* Markup with a match of strategy 1 and a match of strategy 2, both with
\* text, was parsed with a limit of 2 and one record was returned.
C15_Witness ==
    /\ ParseReturned
    /\ limit >= 2
    /\ {1, 2} \subseteq Yielding
    /\ \A k \in 1..Len(dom) : HasText(dom[k])
    /\ Len(dom) = 2
    /\ Len(result.comments) = 1

\* The cookie loader was called on the file of the one line TabLine and
\* returned.
TabFileLoaded ==
    /\ op = "load_cookies"
    /\ pc = "returned"
    /\ cookies_file = CookieFile(<<TabLine>>)

C17_BadCandidateSkipped ==
    /\ op = "parse" /\ pc = "raised" => ~BeautifulSoup
    /\ ParseReturned =>
          /\ \A k \in 1..Len(Visited) :
                HasText(Visited[k]) =>
                    \E j \in 1..Len(result.comments) :
                        result.comments[j] = ExtractCommentData(Visited[k])
          /\ \A j \in 1..Len(result.comments) :
                \E k \in 1..Len(Visited) :
                    /\ HasText(Visited[k])
                    /\ result.comments[j] = ExtractCommentData(Visited[k])

\* The first candidate's extraction raised, and the record of the second was
\* returned.
C17_Witness ==
    /\ ParseReturned
    /\ Len(Visited) = 2
    /\ Visited[1].fails
    /\ HasText(Visited[2])
    /\ result.comments = <<ExtractCommentData(Visited[2])>>

C19_TotalCountIsLength ==
    "total_count" \in result.keys => result.total_count = Len(result.comments)

\* A harvest returned two comments with success.
C19_Witness ==
    /\ op = "harvest"
    /\ pc = "returned"
    /\ result.success
    /\ result.total_count = 2

\* Every record of the list, and of the replies below it, has at most 5
\* replies.
RECURSIVE RepliesBounded(_)
RepliesBounded(records) ==
    \A j \in 1..Len(records) :
        Len(records[j].replies) <= 5 /\ RepliesBounded(records[j].replies)

MaxOf(S) == CHOOSE m \in S : \A n \in S : n <= m

\* The number of levels of replies in the records of the list.
RECURSIVE ReplyDepth(_)
ReplyDepth(records) ==
    IF records = <<>> THEN 0
    ELSE 1 + MaxOf({ReplyDepth(records[j].replies) : j \in 1..Len(records)})

\* The number of levels of elements in the markup.
RECURSIVE TreeDepth(_)
TreeDepth(elements) ==
    IF elements = <<>> THEN 0
    ELSE 1 + MaxOf({TreeDepth(elements[j].children) : j \in 1..Len(elements)})

\* C20: every record the extractor produced, at every depth, has at most 5
\* replies, and the records nest no deeper than the elements they were
\* extracted from.
C20_RepliesBounded ==
    /\ RepliesBounded(result.comments)
    /\ ParseReturned => ReplyDepth(result.comments) <= TreeDepth(dom)

\* A record was returned with 5 replies, taken from more than 5 reply
\* elements, one of which has a reply of its own.
C20_Witness ==
    /\ ParseReturned
    /\ \E j \in 1..Len(result.comments) :
          /\ Len(result.comments[j].replies) = 5
          /\ \E k \in 1..5 : result.comments[j].replies[k].replies # <<>>
    /\ \E k \in 1..Len(dom) : Len(SelectSeq(Flatten(dom[k].children), IsReply)) > 5

\* The markup given to the parser is empty or holds only white space.
BlankParse == op = "parse" /\ static_dom /\ HtmlIsBlank(dom) /\ pc # "call"

\* C21 as stated: on empty or white-space markup the parser returns
\* {comments: [], total_count: 0} without calling the backend, whether or not
\* the backend is imported.
C21_BlankAlwaysReturnsEmpty ==
    BlankParse =>
        /\ pc # "raised"
        /\ result.keys = {"comments", "total_count"}
        /\ result.comments = <<>>
        /\ result.total_count = 0
        /\ (pc = "returned" => ~soup_made)

\* C21: when the backend is imported, the parser returns {comments: [],
\* total_count: 0} for empty or white-space markup without calling the
\* backend; when it is not imported, the parser raises ImportError for such
\* markup as for any other and returns nothing.
C21_BlankShortCircuit ==
    BlankParse =>
        IF BeautifulSoup
        THEN /\ pc # "raised"
             /\ pc \in {"returned", "responded"} =>
                    /\ result.keys = {"comments", "total_count"}
                    /\ result.comments = <<>>
                    /\ result.total_count = 0
                    /\ ~soup_made
        ELSE /\ pc \in {"raised", "responded"}
             /\ result = EmptyResult
             /\ ~soup_made

\* A parse of white-space markup returned with the backend imported.
C21_Witness ==
    /\ BlankParse
    /\ dom # <<>>
    /\ BeautifulSoup
    /\ pc = "returned"
    /\ limit >= 1

\* The cookie file is not configured, does not exist or cannot be read.
NoCookieFile == ~cookies_file.given \/ ~cookies_file.exists \/ ~cookies_file.readable

\* A line the loader skips: blank, or a comment.
SkippedLine(raw) == Strip(raw) = "" \/ StartsWith(Strip(raw), "#")

\* C22: the cookie loader returns and never raises; without a file that can
\* be read it returns no cookie; it returns at most one cookie for each line
\* that is neither blank nor a comment; and a harvest whose loader returned no
\* cookie acquires its session without calling add_cookies.
C22_LoaderNeverFatal ==
    /\ op = "load_cookies" =>
          /\ pc \in {"call", "returned"}
          /\ NoCookieFile => playwright_cookies = <<>>
          /\ Len(playwright_cookies) <=
                 Cardinality({j \in 1..Len(cookies_file.lines) :
                                 ~SkippedLine(cookies_file.lines[j])})
    /\ op = "harvest" /\ NoCookieFile =>
          /\ "add_cookies" \notin faults
          /\ \A j \in 1..Len(events) : events[j] # "add_cookies"

\* A harvest whose cookie file cannot be read has acquired its session and
\* begun the navigation.
C22_Witness ==
    /\ op = "harvest"
    /\ cookies_file.given
    /\ ~cookies_file.readable
    /\ bound
    /\ pc = "scroll"

\* The record the parser returned for the candidate whose text is text has
\* the author_id id.
AuthorIdOf(text, id) ==
    \A j \in 1..Len(result.comments) :
        result.comments[j].text = text => result.comments[j].author_id = id

\* C23: an author link whose href contains profile.php?id=<id>, with or
\* without further parameters after an &, yields the author_id <id>
\* ("/profile.php?id=998877&foo=bar" yields "998877"), and an href that
\* contains /user/<id> yields the segment after /user/ up to the next / or ?.
C23_AuthorId ==
    ParseReturned =>
        /\ AuthorIdOf("t3", "998877")
        /\ AuthorIdOf("t5", "7")
        /\ AuthorIdOf("t4", "42")
        /\ AuthorIdOf("top", "dan.1")

\* C24: a parse-url request with use_browser = false is answered with a
\* successful response that carries the scrape result, and not with an error
\* response.
C24_HttpFetchServed ==
    op = "parse_url_http" /\ response.sent =>
        /\ response.success
        /\ "data" \in response.keys
        /\ "error" \notin response.keys

\* A harvest that acquired its own session has returned.
OwnSessionReturned == HarvestReturned /\ ~page_given /\ bound

\* C25: a close that raises during the teardown of a self-acquired session
\* does not skip the later steps: a page left open by its failing close has
\* its context, its browser (ordinary mode) and its runtime closed all the
\* same, and a context left open by its failing close has its browser and
\* its runtime closed.
C25_CloseFailureIsolated ==
    OwnSessionReturned =>
        /\ page = "open" =>
              /\ context = "closed"
              /\ ~user_data_dir => browser = "closed"
              /\ ~playwright_given => p = "closed"
        /\ context = "open" /\ page = "closed" =>
              /\ ~user_data_dir => browser = "closed"
              /\ ~playwright_given => p = "closed"

\* The place of a release among the four of the spec's teardown order; 0 for
\* an event that is not a release.
ReleaseRank(e) ==
    CASE e = "page_close" -> 1
      [] e = "context_close" -> 2
      [] e = "browser_close" -> 3
      [] e = "aexit" -> 4
      [] OTHER -> 0

HasCookies == LoadCookiesForPlaywright(cookies_file) # <<>>

\* C27: in a harvest that acquires its session, in ordinary and in
\* persistent-profile mode, when the cookie loader returns at least one
\* cookie, add_cookies has returned before goto is called, and the context
\* was created before add_cookies was called.
C27_CookiesBeforeNavigation ==
    op = "harvest" /\ ~page_given /\ HasCookies =>
        \A k \in 1..Len(events) :
            /\ events[k] = "goto" =>
                  \E j \in 1..(k - 1) : events[j] = "add_cookies"
            /\ events[k] = "add_cookies" =>
                  \E j \in 1..(k - 1) :
                      events[j] \in {"new_context", "launch_persistent_context"}

\* A persistent-profile harvest with a cookie has created its context, added
\* the cookie and called goto.
C27_Witness ==
    /\ op = "harvest"
    /\ user_data_dir
    /\ HasCookies
    /\ pc = "scroll"
    /\ events = <<"launch_persistent_context", "add_cookies", "goto">>

\* A scroll iteration that reached its end: it went on to the next iteration
\* or left the loop for the final pass.
IterationEnded == pc = "scroll" /\ pc' \in {"scroll", "final"}

\* C28: an iteration that adds a record sets the stagnation counter to 0 and
\* one that adds none increments it by one, so the counter is the number of
\* the latest consecutive iterations that added none; the loop goes on while
\* the counter is below max_no_new_comments, and leaves with the counter
\* below it only at the limit or at max_scrolls.
C28_StagnationCounter ==
    [][IterationEnded =>
          /\ Len(all_comments') > Len(all_comments) => no_new_comments_count' = 0
          /\ Len(all_comments') = Len(all_comments) =>
                 no_new_comments_count' = no_new_comments_count + 1
          /\ pc' = "scroll" => no_new_comments_count' < max_no_new_comments
          /\ pc' = "final" /\ no_new_comments_count' < max_no_new_comments =>
                 Len(all_comments') >= limit \/ i' >= max_scrolls
          /\ no_new_comments_count' <= max_no_new_comments]_vars

\* The loop is still running after max_no_new_comments iterations that added
\* nothing, because an iteration that added a record came between them.
C28_Witness ==
    /\ op = "harvest"
    /\ pc = "scroll"
    /\ i - Len(all_comments) >= max_no_new_comments
    /\ no_new_comments_count < max_no_new_comments

\* A call of the harvester is over: it returned or raised, and an endpoint may
\* have answered.
HarvestOver == pc \in {"returned", "raised", "responded"}

\* C29: whatever the page shows, also a new comment at every read with the
\* limit out of reach, an iteration begins only below max_scrolls, at most
\* max_scrolls iterations are made, the loop that made max_scrolls of them
\* has gone on to the final pass, and every call of the harvester comes to
\* its end.
C29_CeilingAndTermination ==
    /\ [](/\ i <= max_scrolls
          /\ pc = "scroll" => i < max_scrolls)
    /\ (op = "harvest" ~> HarvestOver)

\* The loop left at the ceiling: max_scrolls iterations, each of which added a
\* comment, and the limit not reached.
C29_Witness ==
    /\ pc = "final"
    /\ i = max_scrolls
    /\ no_new_comments_count = 0
    /\ Len(all_comments) = max_scrolls
    /\ Len(all_comments) < limit

\* The records of a parse that a merge adds: those with a text whose
\* uniqueness key is not among keys, the first of each key, in order.
RECURSIVE FreshOf(_, _)
FreshOf(records, keys) ==
    IF records = <<>> THEN <<>>
    ELSE LET r == Head(records)
         IN  IF r.text # "" /\ UniquenessKey(r) \notin keys
             THEN <<r>> \o FreshOf(Tail(records), keys \cup {UniquenessKey(r)})
             ELSE FreshOf(Tail(records), keys)

\* The comments of the result when the final read returns html: what the loop
\* accumulated, then the records of that read it had not seen, cut at limit.
FinalComments(html) ==
    LET merged == all_comments \o FreshOf(ParseOf(html).comments,
                                          {UniquenessKey(all_comments[j]) :
                                              j \in 1..Len(all_comments)})
    IN  SubSeq(merged, 1, Min(limit, Len(merged)))

\* C30: a harvest that leaves the loop and does not fail builds its result
\* from the accumulator and one more read of the page: the records of that
\* read whose uniqueness key the loop had not seen are appended in order, a
\* comment first shown by that read is in the result when there is room below
\* limit, the list is cut at limit, and total_count is its length.
C30_FinalPass ==
    [][pc = "final" /\ pc' = "finally" /\ ~exc' =>
          /\ result'.keys = {"comments", "total_count"}
          /\ \E html \in ReadablePages : result'.comments = FinalComments(html)
          /\ result'.total_count = Len(result'.comments)
          /\ Len(result'.comments) <= limit]_vars

\* The loop made max_scrolls iterations on the growing page and the final
\* read added one more comment.
C30_Witness ==
    /\ growing
    /\ pc = "finally"
    /\ ~exc
    /\ Len(result.comments) = max_scrolls + 1
    /\ result.comments[max_scrolls + 1].comment_id = "g100"

\* A step of the harvest that reads the page, parses it and merges: a scroll
\* iteration or the final pass.
MergeStep == op = "harvest" /\ pc \in {"scroll", "final"}

\* The uniqueness keys of a list of records.
KeysOf(records) == {UniquenessKey(records[j]) : j \in 1..Len(records)}

\* record is the first record of its uniqueness key in records.
FirstOfKey(record, records) ==
    \E k \in 1..Len(records) :
        /\ records[k] = record
        /\ \A k2 \in 1..(k - 1) : UniquenessKey(records[k2]) # UniquenessKey(record)

\* C31: over the passes of a harvest in time order the record kept for a
\* uniqueness key is the first one parsed with it: a pass leaves every
\* accumulated record as it is and in its place, adds no record whose key is
\* accumulated already, and what it adds for a key is the first record of
\* that key in what it parsed; the result holds those records.
C31_FirstRecordKept ==
    [][MergeStep =>
          LET old == all_comments
              new == all_comments'
              parsed == ParseOf(dom).comments
          IN  /\ \A j \in 1..Len(old) : j <= Len(new) => new[j] = old[j]
              /\ \A j \in (Len(old) + 1)..Len(new) :
                     /\ UniquenessKey(new[j]) \notin KeysOf(old)
                     /\ FirstOfKey(new[j], parsed)
              /\ pc' = "finally" /\ ~exc' => result'.comments = new]_vars

\* A harvest returned one record although limit left room for two: the page
\* shows two records of the same key and different texts, and the first is
\* the one in the result.
C31_Witness ==
    /\ op = "harvest"
    /\ static_dom
    /\ Returned
    /\ limit >= 2
    /\ Len(result.comments) = 1
    /\ LET parsed == ParseOf(dom).comments
       IN  /\ Len(parsed) = 2
           /\ parsed[1] # parsed[2]
           /\ UniquenessKey(parsed[1]) = UniquenessKey(parsed[2])
           /\ result.comments[1] = parsed[1]

\* No record of a replies list of the records, at any depth, has empty text.
RECURSIVE NoBlankReply(_)
NoBlankReply(records) ==
    \A j \in 1..Len(records) :
        /\ \A k \in 1..Len(records[j].replies) : records[j].replies[k].text # ""
        /\ NoBlankReply(records[j].replies)

\* C32: no record in a replies list, at any nesting depth of a returned
\* comment, has empty text.
C32_NoBlankReply == NoBlankReply(result.comments)

\* The comment_id that goes with an element without id attribute whose
\* data-ft names top_level_post_id: the top_level_post_id of the decoded
\* JSON, and the digits the pattern finds when the value does not decode.
DecodedOrMatched(data_ft) ==
    IF JsonLoads(data_ft).ok THEN JsonLoads(data_ft).top_level_post_id
    ELSE RegexTopLevelId(data_ft)

\* The parser returned the one record of a page of one element.
ParsedOne ==
    /\ ParseReturned
    /\ static_dom
    /\ Len(dom) = 1
    /\ Len(result.comments) = 1

\* C33: the comment_id of a record is the id attribute of its element when
\* there is one; otherwise, when data-ft names top_level_post_id, it is the
\* top_level_post_id of the decoded JSON and, on every value that does not
\* decode, a value that is no JSON object included, the digits the regular
\* expression finds after top_level_post_id.
C33_CommentId ==
    ParsedOne =>
        LET e == dom[1]
            comment_id == result.comments[1].comment_id
        IN  /\ e.id # "" => comment_id = e.id
            /\ e.id = "" /\ Contains(e.data_ft, "top_level_post_id") =>
                   comment_id = DecodedOrMatched(e.data_ft)

\* C38: two comments of the page that differ in author and in text are both
\* in the result of a harvest that did not use up its limit, also when they
\* are found by strategy 1 and have no id attribute.
C38_DistinctCommentsKept ==
    /\ op = "harvest"
    /\ static_dom
    /\ Returned
    /\ result.success
    /\ Len(result.comments) < limit
    =>  LET parsed == ParseOf(dom).comments
            kept == {result.comments[j] : j \in 1..Len(result.comments)}
        IN  \A j, k \in 1..Len(parsed) :
                /\ parsed[j].text # ""
                /\ parsed[k].text # ""
                /\ parsed[j].author # parsed[k].author
                /\ parsed[j].text # parsed[k].text
                => parsed[j] \in kept /\ parsed[k] \in kept

\* The close calls the handler's guards let through, in the order it makes
\* them; the first of them is made whatever the later ones do.
HandlerCalls == SelectSeq(TeardownOrder, LAMBDA c : ExceptCalls[c])

\* C35: each resource the harvester acquired gets at most one close or exit
\* call: when the handler runs after the finally block, the call it begins
\* with is not a close of a context, browser or runtime that the finally
\* block has closed.
C35_ClosedOnce ==
    pc = "except_inner" /\ HandlerCalls # <<>> => Closes[Head(HandlerCalls)] # "closed"

\* C36: a runtime the harvester started itself, no playwright_instance being
\* passed, has been exited when the harvester returns, on success and on
\* failure, also when the caller supplied the page (stated for the harvests
\* whose close and exit calls all return).
C36_OwnRuntimeExited ==
    HarvestReturned /\ ~playwright_given /\ "close" \notin faults => p # "open"

\* C37: the accumulator only grows at its end over the scroll iterations and
\* the final pass: what was accumulated before a pass is a prefix of what is
\* accumulated after it, the seen ids only grow, the key of every accumulated
\* record is among them, and the result is the accumulator in that order.
C37_AppendOnly ==
    /\ [](\A j \in 1..Len(all_comments) :
              UniquenessKey(all_comments[j]) \in seen_comment_ids)
    /\ [][MergeStep =>
             /\ Len(all_comments') >= Len(all_comments)
             /\ SubSeq(all_comments', 1, Len(all_comments)) = all_comments
             /\ seen_comment_ids \subseteq seen_comment_ids'
             /\ pc' = "finally" /\ ~exc' =>
                    /\ Len(result'.comments) <= Len(all_comments')
                    /\ result'.comments =
                           SubSeq(all_comments', 1, Len(result'.comments))]_vars

\* The loop is left at the limit after its second iteration: the first
\* iteration added a record and the second added one after it.
C37_Witness ==
    /\ op = "harvest"
    /\ pc = "final"
    /\ i = 2
    /\ limit = 2
    /\ Len(all_comments) = limit

\* The comments of a harvest of the page html alone: the records of its parse
\* with a text, the first of each uniqueness key, at most lim of them.
AloneComments(html, lim) ==
    LET fresh == FreshOf(Parsed[html][lim].comments, {})
    IN  SubSeq(fresh, 1, Min(lim, Len(fresh)))

\* The two calls in progress.
Calls == {Frame, parked}

\* C34: of two harvests in ordinary mode interleaved at their awaits, each
\* keeps the browser, context and page it opened until its own teardown,
\* each accumulates only records of its own page under its own seen ids, and
\* the comments of each successful result are those of a harvest of its page
\* alone.
C34_NoInterference ==
    parked.pc # "none" =>
        \A f \in Calls :
            /\ f.pc = "call" =>
                   f.browser = "none" /\ f.context = "none" /\ f.page = "none"
            /\ f.pc \in {"load", "scroll", "final"} =>
                   f.browser = "open" /\ f.context = "open" /\ f.page = "open"
            /\ f.pc \in {"scroll", "final"} =>
                   /\ \A j \in 1..Len(f.all_comments) :
                          f.all_comments[j] = AloneComments(f.dom, f.limit)[j]
                   /\ f.seen_comment_ids = KeysOf(f.all_comments)
            /\ f.pc \in {"returned", "responded"} /\ f.result.success =>
                   f.result.comments = AloneComments(f.dom, f.limit)

\* Both calls have left their scroll loops and await the final read, each
\* with both comments of its own page accumulated, which have the same keys
\* in both pages and differ.
C34_Witness ==
    /\ parked.pc = "final"
    /\ pc = "final"
    /\ Len(all_comments) = 2
    /\ Len(parked.all_comments) = 2
    /\ seen_comment_ids \cap parked.seen_comment_ids # {}
    /\ all_comments # parked.all_comments
====
